---------------------------- MODULE Spec2Model ----------------------------
(***************************************************************************)
(* Batch-Processor: the main thread (src/src/mainThread.js), the worker    *)
(* thread runtime (src/src/workerThread.js), the statistics container      *)
(* (src/unnamed/part_000) and the log manager (src/src/logManager.js).     *)
(*                                                                         *)
(* The main thread is single threaded: every handler (startWorking,        *)
(* stopWorking, handleMessage, handleError) runs to completion, so each    *)
(* is one action.  Handlers call each other (manageIdleWorker <->          *)
(* assignNextTask, handleError -> addWorker -> manageIdleWorker), so they  *)
(* are written as operators from a state record to a state record; an      *)
(* action applies one handler to the current state and commits the result. *)
(*                                                                         *)
(* Work items are the numbers 1..n, pairwise distinct; the work list set   *)
(* with setIterable is <<1, ..., n>>.  The orchestrator runs without a     *)
(* logLocation in Spec (LogManager.addToQueue then returns at once); the   *)
(* log manager is modelled on its own in SpecLog.                          *)
(***************************************************************************)
EXTENDS Integers, Sequences, FiniteSets, TLC

(***************************************************************************)
(* Bounds of the model.                                                    *)
(***************************************************************************)
MaxItems == 2
MaxInFlight == 2
MaxEvents == 2
MaxPending == 1
CrashItems == 3
MaxLogItems == 2
MaxLogCalls == 4
HungItems == 4

(***************************************************************************)
(* Program constants.                                                      *)
(***************************************************************************)
\* mainThread.js:418  if (main.recentErrors > 5) throw ...
CrashThreshold == 5
\* mainThread.js:417  setTimeout(() => main.recentErrors--, 5000), in seconds
CrashWindow == 5

VARIABLES
    iterable,           \* main.iterable: the pending queue
    workers,            \* main.workers: thread ids of the pool, in push order
    processing,         \* main.processing
    retryStarted,       \* main.retryStarted
    failedTasks,        \* main.failedTasks
    recentErrors,       \* main.recentErrors
    stats,              \* main.stats (StatsTracker counters)
    threads,            \* config.threads
    parallelProcesses,  \* config.parallelProcesses
    retryFailed,        \* config.retryOnFail
    wk,                 \* every Worker object created so far, by thread id
    timers,             \* pending setTimeout decrements: seconds left of each
    fatal,              \* handleError has thrown; the process is gone
    hist,               \* history of the run (observation only)
    logQueue,           \* logManager.logQueue
    logProcessing,      \* logManager.processing
    successFile,        \* text of batch-success.log
    failureFile,        \* text of batch-failure.log
    errorsFile,         \* text of batch-errors.log
    fsOps,              \* file operations started and not yet finished by the file system
    logCalls,           \* the log calls made so far (observation only)
    env,                \* what the environment may still do: events (crashes, stops,
                        \* further starts) left, and the scripted handler outcome
    late                \* the clock, as far as recycleHungThreads reads it: the number of
                        \* dispatches (in dispatch order) made longer ago than the timeout

logVars == <<logQueue, logProcessing, successFile, failureFile, errorsFile, fsOps, logCalls>>

vars == <<iterable, workers, processing, retryStarted, failedTasks, recentErrors,
          stats, threads, parallelProcesses, retryFailed, wk, timers, fatal,
          hist, env, late, logVars>>

runVars == <<iterable, workers, processing, retryStarted, failedTasks, recentErrors,
               stats, threads, parallelProcesses, retryFailed, wk, timers, fatal, hist>>

WorkList(n) == [i \in 1..n |-> i]

SeqSum(f, S) == LET RECURSIVE Sum(_)
                    Sum(T) == IF T = {} THEN 0
                              ELSE LET x == CHOOSE y \in T : TRUE
                                   IN f[x] + Sum(T \ {x})
                IN Sum(S)

\* messages posted to the main thread that it has not handled yet
Pending == SeqSum([id \in DOMAIN wk |-> Len(wk[id].outbox)], DOMAIN wk)

Includes(seq, x) == \E i \in 1..Len(seq) : seq[i] = x

RemoveAt(seq, i) == [j \in 1..(Len(seq) - 1) |-> IF j < i THEN seq[j] ELSE seq[j + 1]]

(***************************************************************************)
(* The state record the handlers work on.                                  *)
(***************************************************************************)
State == [iterable |-> iterable, workers |-> workers, processing |-> processing,
          retryStarted |-> retryStarted, failedTasks |-> failedTasks,
          recentErrors |-> recentErrors, stats |-> stats, threads |-> threads,
          parallelProcesses |-> parallelProcesses, retryFailed |-> retryFailed,
          wk |-> wk, timers |-> timers, fatal |-> fatal, hist |-> hist]

\* a Worker object nothing refers to any more: its thread is gone, it is out of the
\* pool and no message of it is left to handle
Forgotten(s, id) ==
    ~s.wk[id].alive /\ s.wk[id].outbox = <<>> /\ ~Includes(s.workers, id)

Collected == [sent |-> 0, received |-> 0, currentTasks |-> <<>>, stopping |-> FALSE,
              alive |-> FALSE, ready |-> FALSE, inbox |-> <<>>, queue |-> <<>>,
              running |-> <<>>, outbox |-> <<>>]

Commit(s) ==
    /\ iterable' = s.iterable
    /\ workers' = s.workers
    /\ processing' = s.processing
    /\ retryStarted' = s.retryStarted
    /\ failedTasks' = s.failedTasks
    /\ recentErrors' = s.recentErrors
    /\ stats' = s.stats
    /\ wk' = [id \in DOMAIN s.wk |-> IF Forgotten(s, id) THEN Collected ELSE s.wk[id]]
    /\ timers' = s.timers
    /\ fatal' = s.fatal
    /\ hist' = s.hist
    /\ UNCHANGED <<threads, parallelProcesses, retryFailed, late, logVars>>

\* new StatTracker()
StatsTracker == [totalTasks |-> 0, processedTasks |-> 0, successful |-> 0,
                 failed |-> 0, errors |-> 0]

\* this.remainingTasks as updateCalculatedFields computes it (it returns before
\* the assignment when totalTasks is 0)
remainingTasks(st) == st.totalTasks - st.processedTasks

\* new main.Worker(script) with sent = 0, received = 0, currentTasks = [],
\* and the worker thread's own WorkerThread object (ready = false, queue = []).
NewWorker == [sent |-> 0, received |-> 0, currentTasks |-> <<>>, stopping |-> FALSE,
              alive |-> TRUE, ready |-> FALSE, inbox |-> <<>>, queue |-> <<>>,
              running |-> <<>>, outbox |-> <<>>]

\* worker.terminate(), or the thread dying of an uncaught exception: the thread
\* runs no more code.  Messages it had already posted stay in the port.
Dead(w) == [w EXCEPT !.alive = FALSE, !.inbox = <<>>, !.queue = <<>>, !.running = <<>>]

\* index of the first TRUE of a sequence of booleans, 0 if there is none
FirstIndex(flags) ==
    IF \E i \in 1..Len(flags) : flags[i]
    THEN CHOOSE i \in 1..Len(flags) : flags[i] /\ \A j \in 1..(i - 1) : ~flags[j]
    ELSE 0

\* obj[property]; a worker of main.workers is represented by its threadId
Property(obj, property) == IF property = "threadId" THEN obj ELSE obj[property]

\* removeObjectFrom(array, property, value): splices out the first element with
\* element[property] == value
removeObjectFrom(array, property, value) ==
    LET i == FirstIndex([k \in 1..Len(array) |-> Property(array[k], property) = value])
    IN IF i = 0 THEN array ELSE RemoveAt(array, i)

(***************************************************************************)
(* mainThread.js, initial setup methods.  A JavaScript value that may be    *)
(* handed to setIterable is a record: its kind, and its elements when it    *)
(* is an array.                                                             *)
(***************************************************************************)
Value(kind, items) == [kind |-> kind, items |-> items]

Undefined == Value("undefined", <<>>)

\* typeof(v): the name of the type of v, which is a string whatever v is
typeof(v) == Value("string", <<>>)

\* typeof v[Symbol.iterator]: arrays and strings have the iterator method
SymbolIterator(v) ==
    IF v.kind \in {"array", "string"} THEN "function" ELSE "undefined"

\* setIterable(iterable): the queue afterwards, and whether the call threw
setIterable(queue, v) ==
    IF v.kind \in {"undefined", "null"}
    THEN [iterable |-> queue, threw |-> TRUE]
    ELSE IF SymbolIterator(typeof(v)) # "function"
         THEN [iterable |-> queue, threw |-> TRUE]
         ELSE [iterable |-> v, threw |-> FALSE]

(***************************************************************************)
(* mainThread.js, module controlled methods.                               *)
(***************************************************************************)
\* taskCondition without the !worker.stopping
taskConditionIgnoreStopping(s, id) ==
    s.processing /\ Len(s.iterable) > 0

taskCondition(s, id) ==
    s.processing /\ Len(s.iterable) > 0 /\ ~s.wk[id].stopping

\* retryCondition without the !main.retryStarted
retryConditionRepeat(s) ==
    Len(s.iterable) <= 0 /\ s.processing /\ s.retryFailed

retryCondition(s) ==
    Len(s.iterable) <= 0 /\ s.processing /\ s.retryFailed /\ ~s.retryStarted

CountRequeue(h, tasks) ==
    [h EXCEPT !.requeued = [x \in DOMAIN h.requeued |->
        h.requeued[x] + Cardinality({i \in 1..Len(tasks) : tasks[i] = x})]]

\* beginRetry().  hist.retry counts the calls and notes whether each was made in
\* a state with an empty queue, an active run, retry enabled and no retry started,
\* and whether it left the failed tasks as the queue and added their number to
\* totalTasks.
beginRetry(s) ==
    LET s1 == [s EXCEPT !.retryStarted = TRUE]
        s2 == IF Len(s1.failedTasks) > 0
              THEN [s1 EXCEPT !.stats.totalTasks = @ + Len(s1.failedTasks),
                              !.iterable = s1.failedTasks,
                              !.hist = CountRequeue(@, s1.failedTasks)]
              ELSE s1
    IN [s2 EXCEPT !.hist.retry =
            [begins |-> @.begins + 1,
             guarded |-> @.guarded /\ Len(s.iterable) = 0 /\ s.processing
                                   /\ s.retryFailed /\ ~s.retryStarted,
             moved |-> @.moved /\ s2.iterable = s.failedTasks
                               /\ s2.stats.totalTasks =
                                      s.stats.totalTasks + Len(s.failedTasks)]]

\* onAllWorkAssigned(): main.completionCallback() is called.  hist notes what the
\* caller of the callback could observe at that moment.
onAllWorkAssigned(s) ==
    [s EXCEPT !.hist.completions = @ + 1,
              !.hist.pendingAtCompletion = @ \/ Len(s.iterable) > 0,
              !.hist.busyAtCompletion = @ \/
                  \E w \in DOMAIN s.wk : s.wk[w].alive /\ s.wk[w].sent > s.wk[w].received,
              !.hist.miscountAtCompletion = @ \/
                  s.stats.processedTasks # Len(s.hist.dispatchLog)]

\* removeWorker(threadId, immediate) with a thread id given
removeWorker(s, id, immediate) ==
    IF ~Includes(s.workers, id) THEN s
    ELSE LET s1 == [s EXCEPT !.workers = removeObjectFrom(s.workers, "threadId", id)] IN
         IF immediate THEN [s1 EXCEPT !.wk[id] = Dead(@)]
         ELSE [s1 EXCEPT !.wk[id].stopping = TRUE]

\* the value removeWorker(threadId, immediate) returns: false when no worker
\* matched, the promise of worker.terminate() when immediate, else the value of
\* the assignment worker.stopping = true
removeWorkerResult(s, id, immediate) ==
    IF ~Includes(s.workers, id) THEN "false"
    ELSE IF immediate THEN "promise" ELSE "true"

RECURSIVE manageIdleWorker(_, _)
RECURSIVE assignNextTask(_, _)

\* assignNextTask with the capacity test off by one (<= for <)
assignNextTaskOverfill(s, id) ==
    LET nextIterable == s.iterable[Len(s.iterable)]
        w == s.wk[id]
        posted == IF w.alive THEN Append(w.inbox, nextIterable) ELSE w.inbox
        s1 == [s EXCEPT !.iterable = SubSeq(s.iterable, 1, Len(s.iterable) - 1),
                        !.wk[id].inbox = posted,
                        !.wk[id].sent = @ + 1,
                        !.wk[id].currentTasks =
                            Append(@, [task |-> nextIterable,
                                       start |-> Len(s.hist.dispatchLog) + 1]),
                        !.hist.dispatchLog = Append(@, nextIterable)]
        inFlight == s1.wk[id].sent - s1.wk[id].received
    IN IF inFlight <= s.parallelProcesses THEN manageIdleWorker(s1, id) ELSE s1

\* assignNextTask with iterable.shift() for iterable.pop()
assignNextTaskFifo(s, id) ==
    LET nextIterable == Head(s.iterable)
        w == s.wk[id]
        posted == IF w.alive THEN Append(w.inbox, nextIterable) ELSE w.inbox
        s1 == [s EXCEPT !.iterable = Tail(s.iterable),
                        !.wk[id].inbox = posted,
                        !.wk[id].sent = @ + 1,
                        !.wk[id].currentTasks =
                            Append(@, [task |-> nextIterable,
                                       start |-> Len(s.hist.dispatchLog) + 1]),
                        !.hist.dispatchLog = Append(@, nextIterable)]
        inFlight == s1.wk[id].sent - s1.wk[id].received
    IN IF inFlight < s.parallelProcesses THEN manageIdleWorker(s1, id) ELSE s1

assignNextTask(s, id) ==
    LET nextIterable == s.iterable[Len(s.iterable)]
        w == s.wk[id]
        posted == IF w.alive THEN Append(w.inbox, nextIterable) ELSE w.inbox
        s1 == [s EXCEPT !.iterable = SubSeq(s.iterable, 1, Len(s.iterable) - 1),
                        !.wk[id].inbox = posted,
                        !.wk[id].sent = @ + 1,
                        !.wk[id].currentTasks =
                            Append(@, [task |-> nextIterable,
                                       start |-> Len(s.hist.dispatchLog) + 1]),
                        !.hist.dispatchLog = Append(@, nextIterable)]
        inFlight == s1.wk[id].sent - s1.wk[id].received
    IN IF inFlight < s.parallelProcesses THEN manageIdleWorker(s1, id) ELSE s1

manageIdleWorker(s, id) ==
    LET s1 == IF retryCondition(s) THEN beginRetry(s) ELSE s IN
    IF taskCondition(s1, id) THEN assignNextTask(s1, id)
    ELSE IF s1.wk[id].received >= s1.wk[id].sent
         THEN LET s2 == removeWorker(s1, id, TRUE) IN
              IF Len(s2.workers) < 1 THEN onAllWorkAssigned(s2) ELSE s2
         ELSE s1

addWorker(s) ==
    LET id == Len(s.wk) + 1
        s1 == [s EXCEPT !.wk = Append(@, NewWorker), !.workers = Append(@, id)]
    IN manageIdleWorker(s1, id)

\* onTaskCompletion without the closing manageIdleWorker(worker)
onTaskCompletionNoReentry(s, id, task) ==
    [s EXCEPT !.wk[id].currentTasks = removeObjectFrom(@, "task", task),
              !.wk[id].received = @ + 1,
              !.stats.processedTasks = @ + 1]

\* onTaskCompletion counting the message twice in worker.received
onTaskCompletionCountTwice(s, id, task) ==
    LET s1 == [s EXCEPT !.wk[id].currentTasks = removeObjectFrom(@, "task", task),
                        !.wk[id].received = @ + 2,
                        !.stats.processedTasks = @ + 1]
    IN manageIdleWorker(s1, id)

onTaskCompletion(s, id, task) ==
    LET s1 == [s EXCEPT !.wk[id].currentTasks = removeObjectFrom(@, "task", task),
                        !.wk[id].received = @ + 1,
                        !.stats.processedTasks = @ + 1]
    IN manageIdleWorker(s1, id)

\* onTaskCompletion with a workerCallback registered: the callback is called
\* between the bookkeeping and manageIdleWorker(worker), and when it throws the
\* exception leaves onTaskCompletion at that line.
onTaskCompletionCallback(s, id, task, outcome) ==
    LET s1 == [s EXCEPT !.wk[id].currentTasks = removeObjectFrom(@, "task", task),
                        !.wk[id].received = @ + 1,
                        !.stats.processedTasks = @ + 1]
    IN IF outcome = "throws" THEN s1 ELSE manageIdleWorker(s1, id)

\* onSuccessMessage without the main.stats.failed-- of a retry success
onSuccessMessageNoReconcile(s, task) ==
    [s EXCEPT !.stats.successful = @ + 1]

\* onSuccessMessage.  hist.reconciled counts, per item, the times stats.failed
\* was decremented for it.
onSuccessMessage(s, task) ==
    IF Includes(s.failedTasks, task)
    THEN [s EXCEPT !.stats.successful = @ + 1, !.stats.failed = @ - 1,
                   !.hist.reconciled[task] = @ + 1]
    ELSE [s EXCEPT !.stats.successful = @ + 1]

onFailureMessage(s, task) ==
    IF s.retryStarted /\ Includes(s.failedTasks, task) THEN s
    ELSE LET s1 == IF s.retryStarted
                   THEN [s EXCEPT !.stats.totalTasks = @ + 1,
                                  !.iterable = Append(@, task),
                                  !.hist = CountRequeue(@, <<task>>)]
                   ELSE s
         IN [s1 EXCEPT !.failedTasks = Append(@, task), !.stats.failed = @ + 1]

onErrorMessage(s, task) == [s EXCEPT !.stats.errors = @ + 1]

RECURSIVE FailCurrentTasks(_, _)
FailCurrentTasks(s, tasks) ==
    IF tasks = <<>> THEN s
    ELSE FailCurrentTasks(onFailureMessage(onErrorMessage(s, Head(tasks).task),
                                           Head(tasks).task), Tail(tasks))

\* handleError with the threshold test off by one (>= for >)
handleErrorEarlyThrow(s, id) ==
    LET s1 == FailCurrentTasks(s, s.wk[id].currentTasks)
        s2 == [s1 EXCEPT !.stats.processedTasks = @ + 1,
                         !.recentErrors = @ + 1,
                         !.timers = Append(@, CrashWindow),
                         !.hist.crashes = @ + 1]
    IN IF s2.recentErrors >= CrashThreshold THEN [s2 EXCEPT !.fatal = TRUE]
       ELSE addWorker(removeWorker(s2, id, TRUE))

\* handleError(worker, error).  The throw leaves the handler before removeWorker
\* and addWorker; nothing catches it, so the process ends.
handleError(s, id) ==
    LET s1 == FailCurrentTasks(s, s.wk[id].currentTasks)
        s2 == [s1 EXCEPT !.stats.processedTasks = @ + 1,
                         !.recentErrors = @ + 1,
                         !.timers = Append(@, CrashWindow),
                         !.hist.crashes = @ + 1]
    IN IF s2.recentErrors > CrashThreshold THEN [s2 EXCEPT !.fatal = TRUE]
       ELSE addWorker(removeWorker(s2, id, TRUE))

\* the hungTasks count of recycleHungThreads: the in-flight records of the worker
\* with now - task.start > timeout, which are those of the first `horizon` dispatches
hungTasks(w, horizon) ==
    Cardinality({i \in 1..Len(w.currentTasks) : w.currentTasks[i].start <= horizon})

\* the test of recycleHungThreads: hungTasks >= worker.currentTasks.length / 2
hungCondition(w, horizon) == 2 * hungTasks(w, horizon) >= Len(w.currentTasks)

\* recycleHungThreads(timeout): for (const worker of main.workers) walks main.workers
\* by index while handleError splices the recycled worker out of it and pushes the
\* replacement; a throw of handleError ends the scan.
RECURSIVE scanWorkers(_, _, _)
scanWorkers(s, i, horizon) ==
    IF s.fatal \/ i > Len(s.workers) THEN s
    ELSE IF hungCondition(s.wk[s.workers[i]], horizon)
         THEN scanWorkers(handleError(s, s.workers[i]), i + 1, horizon)
         ELSE scanWorkers(s, i + 1, horizon)

recycleHungThreads(s, horizon) == scanWorkers(s, 1, horizon)

\* variant of startWorking that records the start but spawns no worker
startWorkingNoSpawn(s) ==
    [s EXCEPT !.stats.totalTasks = Len(s.iterable), !.processing = TRUE]

startWorking(s) ==
    LET s1 == [s EXCEPT !.stats.totalTasks = Len(s.iterable), !.processing = TRUE]
        RECURSIVE Spawn(_, _)
        Spawn(t, currentWorkers) ==
            IF currentWorkers < t.threads THEN Spawn(addWorker(t), currentWorkers + 1) ELSE t
    IN Spawn(s1, Len(s1.workers))

RECURSIVE RemoveAll(_, _, _)
RemoveAll(s, threadIds, immediate) ==
    IF threadIds = <<>> THEN s
    ELSE RemoveAll(removeWorker(s, Head(threadIds), immediate), Tail(threadIds), immediate)

stopWorking(s, immediate) ==
    RemoveAll([s EXCEPT !.processing = FALSE], s.workers, immediate)

handleMessage(s, id, message) ==
    CASE message.type = "complete" -> onTaskCompletion(s, id, message.iterated)
      [] message.type = "successful" -> onSuccessMessage(s, message.iterated)
      [] message.type = "failed" -> onFailureMessage(s, message.iterated)
      [] message.type = "error" -> onErrorMessage(s, message.iterated)
      [] OTHER -> s

\* handleMessage when a workerCallback is registered: the catch block logs what
\* onTaskCompletion threw and returns
handleMessageCallback(s, id, message, outcome) ==
    IF message.type = "complete"
    THEN onTaskCompletionCallback(s, id, message.iterated, outcome)
    ELSE handleMessage(s, id, message)

(***************************************************************************)
(* logManager.js.  The text of a log file is a sequence of tokens: a       *)
(* number x >= 1 stands for the JSON line written for item x, the token   *)
(* NL for the character "\n".                                              *)
(***************************************************************************)
NL == 0

\* `{"task": "x", "details": "..."}\n` of processSuccess and processFailure
EntryLine(x) == <<x, NL>>
\* `{"task": "x", "error": "..."}\n\n` of processError
ErrorLine(x) == <<x, NL, NL>>

\* result.split('\n')
RECURSIVE Split(_)
Split(text) ==
    IF \A i \in 1..Len(text) : text[i] # NL THEN <<text>>
    ELSE LET k == CHOOSE i \in 1..Len(text) :
                      text[i] = NL /\ \A j \in 1..(i - 1) : text[j] # NL
         IN <<SubSeq(text, 1, k - 1)>> \o Split(SubSeq(text, k + 1, Len(text)))

\* lines.join('\n')
RECURSIVE Join(_)
Join(lines) ==
    IF lines = <<>> THEN <<>>
    ELSE IF Len(lines) = 1 THEN lines[1]
    ELSE lines[1] \o <<NL>> \o Join(Tail(lines))

\* JSON.parse(lines[i])[iterableName] == iterated; a line that is not one JSON
\* object makes JSON.parse throw, which the loop swallows
LineMatches(line, iterated) == Len(line) = 1 /\ line[1] = iterated

\* the loop of processRmFailure: the index it stops at.  It breaks at the first
\* match.
rmFailureIndex(lines, iterated) ==
    FirstIndex([k \in 1..Len(lines) |-> LineMatches(lines[k], iterated)])

\* processRmFailure(iterated) run with no other file operation in between: the
\* text it leaves in the failure file
processRmFailure(text, iterated) ==
    LET lines == Split(text)
        index == rmFailureIndex(lines, iterated)
    IN IF index = 0 THEN text ELSE Join(RemoveAt(lines, index))

\* the synchronous part of processSuccess, processFailure, processError and
\* processRmFailure: each ends by starting one file operation and awaiting it
StartOp(logTask) ==
    CASE logTask.type = "success" ->
             <<[op |-> "append", file |-> "success", text |-> EntryLine(logTask.iterated)]>>
      [] logTask.type = "failure" ->
             <<[op |-> "append", file |-> "failure", text |-> EntryLine(logTask.iterated)]>>
      [] logTask.type = "error" ->
             <<[op |-> "append", file |-> "errors", text |-> ErrorLine(logTask.iterated)]>>
      [] logTask.type = "rmFailure" ->
             <<[op |-> "read", file |-> "failure", text |-> <<logTask.iterated>>]>>
      [] OTHER -> <<>>

\* processQueue(): for (const logTask of logQueue) { logQueue.shift(); ... }.
\* The iterator reads logQueue[i] of the array as it is now, then the body shifts.
\* None of the process functions is awaited, so the loop ends in the same turn.
RECURSIVE processQueueLoop(_, _, _)
processQueueLoop(queue, i, started) ==
    IF i > Len(queue) THEN [logQueue |-> queue, started |-> started]
    ELSE processQueueLoop(Tail(queue), i + 1, started \o StartOp(queue[i]))

\* addToQueue(type, data) with a logPath configured
addToQueue(L, type, iterated) ==
    LET queue == Append(L.logQueue, [type |-> type, iterated |-> iterated]) IN
    IF L.logProcessing THEN [L EXCEPT !.logQueue = queue]
    ELSE LET r == processQueueLoop(queue, 1, <<>>) IN
         [L EXCEPT !.logQueue = r.logQueue, !.fsOps = @ \o r.started,
                   !.logProcessing = FALSE]

logSuccess(L, iterated) == addToQueue(L, "success", iterated)
logFailure(L, iterated) == addToQueue(L, "failure", iterated)
logError(L, iterated) == addToQueue(L, "error", iterated)
logRetrySuccess(L, iterated) ==
    addToQueue(addToQueue(L, "rmFailure", iterated), "success", iterated)

LogState == [logQueue |-> logQueue, logProcessing |-> logProcessing, fsOps |-> fsOps]

LogInit ==
    /\ logQueue = <<>>
    /\ logProcessing = FALSE
    /\ successFile = <<>>
    /\ failureFile = <<>>
    /\ errorsFile = <<>>
    /\ fsOps = <<>>
    /\ logCalls = <<>>

(***************************************************************************)
(* Initial states: the object after construction and setIterable.          *)
(***************************************************************************)
NoHist == [completions |-> 0, pendingAtCompletion |-> FALSE, busyAtCompletion |-> FALSE,
           miscountAtCompletion |-> FALSE,
           dispatchLog |-> <<>>, handled |-> {},
           requeued |-> <<>>,
           crashes |-> 0, expired |-> 0,
           workList |-> <<>>, stopped |-> FALSE, starts |-> 0,
           scanMissed |-> FALSE, scanWrong |-> FALSE,
           scanMissedOfMany |-> FALSE, scanFresh |-> FALSE,
           removeCalls |-> {},
           lastRemove |-> [id |-> 0, immediate |-> FALSE, inPool |-> FALSE, again |-> FALSE,
                           result |-> "none", poolKept |-> TRUE],
           lastSet |-> [called |-> FALSE, given |-> Undefined, before |-> Undefined,
                        threw |-> FALSE],
           lastMsg |-> [side |-> "none", type |-> "", kept |-> TRUE, crashed |-> FALSE],
           lastComplete |-> [id |-> 0, outcome |-> "none", reentered |-> TRUE],
           retry |-> [begins |-> 0, guarded |-> TRUE, moved |-> TRUE],
           reconciled |-> <<>>,
           lastRm |-> [called |-> FALSE, iterated |-> 0, before |-> <<>>, after |-> <<>>],
           dropped |-> FALSE,
           stopMark |-> [pending |-> <<>>, dispatched |-> 0, completions |-> 0,
                         resumed |-> FALSE]]

InitWith(list, th, pp, retry, bud) ==
    /\ iterable = list
    /\ workers = <<>>
    /\ processing = FALSE
    /\ retryStarted = FALSE
    /\ failedTasks = <<>>
    /\ recentErrors = 0
    /\ stats = StatsTracker
    /\ threads = th
    /\ parallelProcesses = pp
    /\ retryFailed = retry
    /\ wk = <<>>
    /\ timers = <<>>
    /\ fatal = FALSE
    /\ hist = [NoHist EXCEPT !.workList = list, !.requeued = [x \in 1..Len(list) |-> 0],
                           !.reconciled = [x \in 1..Len(list) |-> 0]]
    /\ env = bud
    /\ late = 0
    /\ LogInit

Init ==
    \E n \in 0..MaxItems, th \in 1..MaxInFlight, pp \in 1..MaxInFlight, retry \in BOOLEAN :
        /\ th * pp <= MaxInFlight
        /\ InitWith(WorkList(n), th, pp, retry,
                 [events |-> MaxEvents, failItem |-> 0])

(***************************************************************************)
(* Actions of the embedding application.                                   *)
(***************************************************************************)
StartWorking ==
    /\ ~fatal
    /\ hist.starts = 0 \/ env.events > 0
    /\ env' = IF hist.starts = 0 THEN env ELSE [env EXCEPT !.events = @ - 1]
    /\ \E out \in {[startWorking(State) EXCEPT !.hist.starts = @ + 1]} : Commit(out)

StopWorking(immediate) ==
    /\ ~fatal
    /\ env.events > 0
    /\ hist.starts > 0
    /\ env' = [env EXCEPT !.events = @ - 1]
    /\ \E out \in {[stopWorking(State, immediate) EXCEPT !.hist.stopped = TRUE]} : Commit(out)

(***************************************************************************)
(* Actions of a worker thread (workerThread.js).                           *)
(***************************************************************************)
\* handleMessage(message) of the worker thread.  Both checks throw, and nothing
\* in the worker catches: threw tells that the exception left the listener.  The
\* item 0 stands for a falsy iterableItem.
workerHandleMessage(w, message) ==
    IF message.type # "workNext" THEN [worker |-> w, threw |-> TRUE]
    ELSE IF message.iterableItem = 0 THEN [worker |-> w, threw |-> TRUE]
    ELSE LET next == message.iterableItem IN
         [worker |-> IF w.ready
                     THEN [w EXCEPT !.running = Append(@, [item |-> next, noted |-> FALSE])]
                     ELSE [w EXCEPT !.queue = Append(@, next)],
          threw |-> FALSE]

\* the workNext message main posted in assignNextTask for the item
WorkNext(item) == [type |-> "workNext", iterableItem |-> item]

\* 'message' event of the worker's parentPort: a workNext message arrives.  When
\* handleMessage throws, the exception is uncaught in the thread: the thread ends
\* and main handles its 'error' event; hist.dropped notes that an item the worker
\* received was not passed to execute.
WorkerHandleMessage(id) ==
    /\ ~fatal
    /\ wk[id].alive
    /\ wk[id].inbox # <<>>
    /\ LET r == workerHandleMessage([wk[id] EXCEPT !.inbox = Tail(@)],
                                    WorkNext(Head(wk[id].inbox)))
       IN IF r.threw
          THEN /\ \E out \in {[handleError([State EXCEPT !.wk[id] = Dead(@)], id)
                                   EXCEPT !.hist.dropped = TRUE]} : Commit(out)
               /\ UNCHANGED env
          ELSE /\ wk' = [wk EXCEPT ![id] = r.worker]
               /\ hist' = IF wk[id].ready
                          THEN [hist EXCEPT !.handled = @ \cup {Head(wk[id].inbox)}]
                          ELSE hist
               /\ UNCHANGED <<iterable, workers, processing, retryStarted, failedTasks,
                              recentErrors, stats, threads, parallelProcesses, retryFailed,
                              timers, fatal, env, late, logVars>>

\* startWorking() of the worker, called once prepareWorkerThread has resolved
WorkerStartWorking(id) ==
    /\ ~fatal
    /\ wk[id].alive
    /\ ~wk[id].ready
    /\ wk' = [wk EXCEPT ![id].ready = TRUE,
                        ![id].running = @ \o [i \in 1..Len(wk[id].queue) |->
                                                [item |-> wk[id].queue[i], noted |-> FALSE]]]
    /\ hist' = [hist EXCEPT !.handled = @ \cup {wk[id].queue[i] : i \in 1..Len(wk[id].queue)}]
    /\ UNCHANGED <<iterable, workers, processing, retryStarted, failedTasks, recentErrors,
                   stats, threads, parallelProcesses, retryFailed, timers, fatal, env, late, logVars>>

\* execute(item) calls recordSuccess, recordFailure or recordError
WorkerRecord(id, i, type) ==
    /\ ~fatal
    /\ wk[id].alive
    /\ i \in 1..Len(wk[id].running)
    /\ ~wk[id].running[i].noted
    /\ Pending < MaxPending
    /\ wk' = [wk EXCEPT ![id].running[i].noted = TRUE,
                        ![id].outbox = Append(@, [type |-> type,
                                                  iterated |-> wk[id].running[i].item])]
    /\ UNCHANGED <<iterable, workers, processing, retryStarted, failedTasks, recentErrors,
                   stats, threads, parallelProcesses, retryFailed, timers, fatal, hist, env, late, logVars>>

\* execute(item) returns: processTask goes on to completeIteration
WorkerCompleteIteration(id, i) ==
    /\ ~fatal
    /\ wk[id].alive
    /\ i \in 1..Len(wk[id].running)
    /\ Pending < MaxPending
    /\ wk' = [wk EXCEPT ![id].running = RemoveAt(@, i),
                        ![id].outbox = Append(@, [type |-> "complete",
                                                  iterated |-> wk[id].running[i].item])]
    /\ UNCHANGED <<iterable, workers, processing, retryStarted, failedTasks, recentErrors,
                   stats, threads, parallelProcesses, retryFailed, timers, fatal, hist, env, late, logVars>>

(***************************************************************************)
(* Events the main thread handles.                                         *)
(***************************************************************************)
\* 'message' event of a worker
MainHandleMessage(id) ==
    /\ ~fatal
    /\ wk[id].outbox # <<>>
    /\ \E out \in {handleMessage([State EXCEPT !.wk[id].outbox = Tail(@)], id,
                              Head(wk[id].outbox))} : Commit(out)
    /\ UNCHANGED env

\* 'error' event of a worker: the thread threw an uncaught exception
WorkerCrash(id) ==
    /\ ~fatal
    /\ wk[id].alive
    /\ env.events > 0
    /\ env' = [env EXCEPT !.events = @ - 1]
    /\ \E out \in {handleError([State EXCEPT !.wk[id] = Dead(@)], id)} : Commit(out)

\* one second passes; a timer that is due fires first
Tick ==
    /\ ~fatal
    /\ timers # <<>>
    /\ \A i \in 1..Len(timers) : timers[i] > 0
    /\ timers' = [i \in 1..Len(timers) |-> timers[i] - 1]
    /\ UNCHANGED <<iterable, workers, processing, retryStarted, failedTasks, recentErrors,
                   stats, threads, parallelProcesses, retryFailed, wk, fatal, hist, env, late, logVars>>

\* the callback of setTimeout(() => main.recentErrors--, 5000)
TimerFire ==
    /\ ~fatal
    /\ timers # <<>>
    /\ Head(timers) = 0
    /\ timers' = Tail(timers)
    /\ recentErrors' = recentErrors - 1
    /\ hist' = [hist EXCEPT !.expired = @ + 1]
    /\ UNCHANGED <<iterable, workers, processing, retryStarted, failedTasks,
                   stats, threads, parallelProcesses, retryFailed, wk, fatal, env, late, logVars>>

\* time passes: one more dispatch is older than the timeout
Elapse ==
    /\ ~fatal
    /\ late < Len(hist.dispatchLog)
    /\ late' = late + 1
    /\ UNCHANGED <<runVars, env, logVars>>

\* the setInterval callback of the constructor, until onAllWorkAssigned clears the
\* interval.  hist notes whether the scan left a worker that met the test at its
\* start, and whether it recycled one that did not; whether it left one of two or
\* more workers that met the test; and whether it called handleError for a worker
\* that was not in the pool at its start.
RecycleHungThreads ==
    /\ ~fatal
    /\ hist.completions = 0
    /\ LET hung == {id \in DOMAIN wk : Includes(workers, id) /\ hungCondition(wk[id], late)}
           calm == {id \in DOMAIN wk : Includes(workers, id) /\ ~hungCondition(wk[id], late)}
       IN \E out \in {recycleHungThreads(State, late)} :
              Commit([out EXCEPT
                  !.hist.scanMissed = @ \/ (~out.fatal /\ \E id \in hung : out.wk[id].alive),
                  !.hist.scanWrong = @ \/ \E id \in calm : ~out.wk[id].alive,
                  !.hist.scanMissedOfMany = @ \/
                      (Cardinality(hung) >= 2 /\ ~out.fatal
                           /\ \E id \in hung : out.wk[id].alive),
                  !.hist.scanFresh = @ \/
                      out.hist.crashes - hist.crashes >
                          Cardinality({id \in hung \cup calm : ~out.wk[id].alive})])
    /\ UNCHANGED env

\* the application calls main.removeWorker(threadId, immediate) with a thread id:
\* one that addWorker has returned, or one that no worker has.  hist notes the call,
\* what it returned, and the workers it has been called for.
RemoveWorker(id, immediate) ==
    /\ ~fatal
    /\ env.events > 0
    /\ id \in 1..(Len(wk) + 1)
    /\ env' = [env EXCEPT !.events = @ - 1]
    /\ \E out \in {removeWorker(State, id, immediate)} :
           Commit([out EXCEPT
               !.hist.removeCalls = @ \cup (IF id \in DOMAIN wk THEN {id} ELSE {}),
               !.hist.lastRemove = [id |-> id, immediate |-> immediate,
                                    inPool |-> Includes(workers, id),
                                    again |-> id \in hist.removeCalls,
                                    result |-> removeWorkerResult(State, id, immediate),
                                    poolKept |-> out.workers = workers]])

Ids == DOMAIN wk

Next ==
    \/ StartWorking
    \/ \E immediate \in BOOLEAN : StopWorking(immediate)
    \/ \E id \in Ids : WorkerHandleMessage(id)
    \/ \E id \in Ids : WorkerStartWorking(id)
    \/ \E id \in Ids : \E i \in 1..Len(wk[id].running) :
           \E type \in {"successful", "failed", "error"} : WorkerRecord(id, i, type)
    \/ \E id \in Ids : \E i \in 1..Len(wk[id].running) : WorkerCompleteIteration(id, i)
    \/ \E id \in Ids : MainHandleMessage(id)
    \/ \E id \in Ids : WorkerCrash(id)

Spec == Init /\ [][Next]_vars

(***************************************************************************)
(* The runs of other specifications: the same handlers under a narrower    *)
(* environment.                                                            *)
(***************************************************************************)
\* the application starts the run once and never stops it
StartOnce ==
    /\ hist.starts = 0
    /\ StartWorking

\* SpecLive: no worker crashes and stopWorking is never called; the handler always
\* returns.  The event loops of the main thread and of the workers keep running.
InitLive ==
    \E n \in 0..MaxItems, th \in 1..MaxInFlight, pp \in 1..MaxInFlight, retry \in BOOLEAN :
        /\ th * pp <= MaxInFlight
        /\ InitWith(WorkList(n), th, pp, retry, [events |-> 0, failItem |-> 0])

NextLive ==
    \/ StartOnce
    \/ \E id \in Ids : WorkerHandleMessage(id)
    \/ \E id \in Ids : WorkerStartWorking(id)
    \/ \E id \in Ids : \E i \in 1..Len(wk[id].running) :
           \E type \in {"successful", "failed", "error"} : WorkerRecord(id, i, type)
    \/ \E id \in Ids : \E i \in 1..Len(wk[id].running) : WorkerCompleteIteration(id, i)
    \/ \E id \in Ids : MainHandleMessage(id)

SpecLive == InitLive /\ [][NextLive]_vars /\ WF_vars(NextLive)

\* SpecScenario: one worker, one item at a time, retryOnFail on; the handler calls
\* recordSuccess for every item, except that one item gets recordFailure the first
\* time it is executed.
ScenarioLengths == {3, 5}

InitScenario ==
    \E n \in ScenarioLengths : \E f \in 1..n :
        InitWith(WorkList(n), 1, 1, TRUE, [events |-> 0, failItem |-> f])

ScenarioOutcome(item) ==
    IF item = env.failItem /\ ~Includes(failedTasks, item) THEN "failed" ELSE "successful"

ScenarioRecord(id, i) ==
    /\ i \in 1..Len(wk[id].running)
    /\ WorkerRecord(id, i, ScenarioOutcome(wk[id].running[i].item))

ScenarioReturn(id, i) ==
    /\ i \in 1..Len(wk[id].running)
    /\ wk[id].running[i].noted
    /\ WorkerCompleteIteration(id, i)

NextScenario ==
    \/ StartOnce
    \/ \E id \in Ids : WorkerHandleMessage(id)
    \/ \E id \in Ids : WorkerStartWorking(id)
    \/ \E id \in Ids : \E i \in 1..Len(wk[id].running) : ScenarioRecord(id, i)
    \/ \E id \in Ids : \E i \in 1..Len(wk[id].running) : ScenarioReturn(id, i)
    \/ \E id \in Ids : MainHandleMessage(id)

SpecScenario == InitScenario /\ [][NextScenario]_vars

\* SpecCrash: workers crash while the clock runs; stopWorking is never called.
InitCrash ==
    \E retry \in BOOLEAN :
        InitWith(WorkList(CrashItems), 1, 1, retry,
                 [events |-> CrashThreshold + 1, failItem |-> 0])

NextCrash ==
    \/ StartOnce
    \/ \E id \in Ids : WorkerHandleMessage(id)
    \/ \E id \in Ids : WorkerStartWorking(id)
    \/ \E id \in Ids : \E i \in 1..Len(wk[id].running) : WorkerCompleteIteration(id, i)
    \/ \E id \in Ids : MainHandleMessage(id)
    \/ \E id \in Ids : WorkerCrash(id)
    \/ Tick
    \/ TimerFire

SpecCrash == InitCrash /\ [][NextCrash]_vars

\* SpecHung: a timeout is configured, so the constructor's interval runs
\* recycleHungThreads while time passes; one worker with up to HungItems items in
\* flight, or two workers with one item each.
InitHung ==
    \E th \in 1..2 :
        InitWith(WorkList(HungItems), th, IF th = 1 THEN HungItems ELSE 1, FALSE,
                 [events |-> 0, failItem |-> 0])

NextHung ==
    \/ StartOnce
    \/ \E id \in Ids : WorkerHandleMessage(id)
    \/ \E id \in Ids : WorkerStartWorking(id)
    \/ \E id \in Ids : \E i \in 1..Len(wk[id].running) : WorkerCompleteIteration(id, i)
    \/ \E id \in Ids : MainHandleMessage(id)
    \/ Elapse
    \/ RecycleHungThreads

SpecHung == InitHung /\ [][NextHung]_vars

\* SpecRemove: a run in which the application also calls removeWorker.
NextRemove ==
    \/ StartOnce
    \/ \E id \in Ids : WorkerHandleMessage(id)
    \/ \E id \in Ids : WorkerStartWorking(id)
    \/ \E id \in Ids : \E i \in 1..Len(wk[id].running) : WorkerCompleteIteration(id, i)
    \/ \E id \in Ids : MainHandleMessage(id)
    \/ \E id \in 1..(Len(wk) + 1), immediate \in BOOLEAN : RemoveWorker(id, immediate)

SpecRemove == Init /\ [][NextRemove]_vars

\* SpecSetup: the object as the constructor leaves it (main.iterable undefined),
\* and the application calling setIterable with values of every kind.
Arrays == UNION {[1..n -> 1..MaxItems] : n \in 0..MaxItems}

Values ==
    {Value("array", a) : a \in Arrays}
        \cup {Value(k, <<>>) : k \in {"undefined", "null", "object", "number"}}

InitSetup ==
    /\ iterable = Undefined
    /\ workers = <<>>
    /\ processing = FALSE
    /\ retryStarted = FALSE
    /\ failedTasks = <<>>
    /\ recentErrors = 0
    /\ stats = StatsTracker
    /\ threads = 1
    /\ parallelProcesses = 1
    /\ retryFailed = FALSE
    /\ wk = <<>>
    /\ timers = <<>>
    /\ fatal = FALSE
    /\ hist = NoHist
    /\ env = [events |-> 0, failItem |-> 0]
    /\ late = 0
    /\ LogInit

SetIterable(v) ==
    /\ \E out \in {setIterable(iterable, v)} :
           /\ iterable' = out.iterable
           /\ hist' = [hist EXCEPT !.lastSet = [called |-> TRUE, given |-> v,
                                                before |-> iterable, threw |-> out.threw]]
    /\ UNCHANGED <<workers, processing, retryStarted, failedTasks, recentErrors, stats,
                   threads, parallelProcesses, retryFailed, wk, timers, fatal, env, late,
                   logVars>>

NextSetup == \E v \in Values : SetIterable(v)

SpecSetup == InitSetup /\ [][NextSetup]_vars

\* SpecProtocol: a run in which messages the protocol does not know arrive on both
\* sides: a message without a type ("") or with a type the receiver has no branch
\* for.  hist.lastMsg notes the last such message: whether main's state was the
\* same after handling it, and whether the worker thread died of it.
ForeignTypes == {"", "bogus"}

MainReceiveForeign(id, type) ==
    /\ ~fatal
    /\ env.events > 0
    /\ env' = [env EXCEPT !.events = @ - 1]
    /\ \E handled \in {handleMessage(State, id, [type |-> type, iterated |-> 0])} :
           Commit([handled EXCEPT !.hist.lastMsg = [side |-> "main", type |-> type,
                                                   kept |-> handled = State,
                                                   crashed |-> handled.fatal]])

\* an exception that leaves the worker's listener is uncaught in the thread: the
\* thread ends and main receives the worker's 'error' event
WorkerReceiveForeign(id, type) ==
    /\ ~fatal
    /\ wk[id].alive
    /\ env.events > 0
    /\ env' = [env EXCEPT !.events = @ - 1]
    /\ \E r \in {workerHandleMessage(wk[id], [type |-> type, iterableItem |-> 0])} :
       \E out \in {IF r.threw THEN handleError([State EXCEPT !.wk[id] = Dead(@)], id)
                   ELSE [State EXCEPT !.wk[id] = r.worker]} :
           Commit([out EXCEPT !.hist.lastMsg = [side |-> "worker", type |-> type,
                                               kept |-> out = State,
                                               crashed |-> r.threw]])

NextProtocol ==
    \/ StartOnce
    \/ \E id \in Ids : WorkerHandleMessage(id)
    \/ \E id \in Ids : WorkerStartWorking(id)
    \/ \E id \in Ids : \E i \in 1..Len(wk[id].running) :
           \E type \in {"successful", "failed", "error"} : WorkerRecord(id, i, type)
    \/ \E id \in Ids : \E i \in 1..Len(wk[id].running) : WorkerCompleteIteration(id, i)
    \/ \E id \in Ids : MainHandleMessage(id)
    \/ \E id \in Ids, type \in ForeignTypes : MainReceiveForeign(id, type)
    \/ \E id \in Ids, type \in ForeignTypes : WorkerReceiveForeign(id, type)

SpecProtocol == Init /\ [][NextProtocol]_vars

\* SpecCallback: a run with a per-item callback registered that returns or throws.
\* hist.lastComplete notes, for the last 'complete' message handled, the worker,
\* what the callback did, and whether the worker was left as the dispatch loop
\* leaves it: given a new item, removed from the pool, or with items in flight
\* and nothing it may take.
CallbackOutcomes == {"returns", "throws"}

Reentered(before, after, id) ==
    \/ after.wk[id].sent > before.wk[id].sent
    \/ ~Includes(after.workers, id)
    \/ after.wk[id].sent > after.wk[id].received /\ ~taskCondition(after, id)

MainHandleMessageCallback(id, outcome) ==
    /\ ~fatal
    /\ wk[id].outbox # <<>>
    /\ \E out \in {handleMessageCallback([State EXCEPT !.wk[id].outbox = Tail(@)], id,
                                          Head(wk[id].outbox), outcome)} :
           Commit([out EXCEPT !.hist.lastComplete =
                      IF Head(wk[id].outbox).type = "complete"
                      THEN [id |-> id, outcome |-> outcome,
                            reentered |-> Reentered(State, out, id)]
                      ELSE @])
    /\ UNCHANGED env

NextCallback ==
    \/ StartOnce
    \/ \E id \in Ids : WorkerHandleMessage(id)
    \/ \E id \in Ids : WorkerStartWorking(id)
    \/ \E id \in Ids : \E i \in 1..Len(wk[id].running) :
           \E type \in {"successful", "failed", "error"} : WorkerRecord(id, i, type)
    \/ \E id \in Ids : \E i \in 1..Len(wk[id].running) : WorkerCompleteIteration(id, i)
    \/ \E id \in Ids, outcome \in CallbackOutcomes : MainHandleMessageCallback(id, outcome)

SpecCallback == InitLive /\ [][NextCallback]_vars

\* SpecStartup: runs over work lists of distinct items that may hold the item 0,
\* which is falsy; the worker threads become ready at any moment, before or after
\* their first items arrive.
StartupLists ==
    {list \in UNION {[1..n -> 0..MaxItems] : n \in 0..MaxItems} :
        \A i, j \in DOMAIN list : i # j => list[i] # list[j]}

InitStartup ==
    \E list \in StartupLists, th \in 1..MaxInFlight, pp \in 1..MaxInFlight :
        /\ th * pp <= MaxInFlight
        /\ InitWith(list, th, pp, FALSE, [events |-> 0, failItem |-> 0])

SpecStartup == InitStartup /\ [][NextLive]_vars

\* SpecResume: the application starts the run, calls stopWorking(false) once and
\* then startWorking() again; no worker crashes.  hist.stopMark notes the pending
\* queue and the number of dispatches at the stop, and the number of completion
\* events before the resuming call.
StopGraceful ==
    /\ ~fatal
    /\ hist.starts = 1
    /\ ~hist.stopped
    /\ \E out \in {[stopWorking(State, FALSE) EXCEPT
                         !.hist.stopped = TRUE,
                         !.hist.stopMark.pending = iterable,
                         !.hist.stopMark.dispatched = Len(hist.dispatchLog)]} :
           Commit(out)
    /\ UNCHANGED env

Resume ==
    /\ ~fatal
    /\ hist.stopped
    /\ hist.starts = 1
    /\ \E out \in {[startWorking(State) EXCEPT
                         !.hist.starts = @ + 1,
                         !.hist.stopMark.resumed = TRUE,
                         !.hist.stopMark.completions = hist.completions]} :
           Commit(out)
    /\ UNCHANGED env

NextResume ==
    \/ StartOnce
    \/ StopGraceful
    \/ Resume
    \/ \E id \in Ids : WorkerHandleMessage(id)
    \/ \E id \in Ids : WorkerStartWorking(id)
    \/ \E id \in Ids : \E i \in 1..Len(wk[id].running) :
           \E type \in {"successful", "failed", "error"} : WorkerRecord(id, i, type)
    \/ \E id \in Ids : \E i \in 1..Len(wk[id].running) : WorkerCompleteIteration(id, i)
    \/ \E id \in Ids : MainHandleMessage(id)

SpecResume == InitLive /\ [][NextResume]_vars /\ WF_vars(NextLive)

\* SpecPool: the run of SpecResume (start, stopWorking(false), start again) with
\* one thread and retryOnFail on, in which one worker thread may crash.
InitPool ==
    \E n \in 0..MaxItems, pp \in 1..MaxInFlight :
        InitWith(WorkList(n), 1, pp, TRUE, [events |-> 1, failItem |-> 0])

NextPool ==
    \/ NextResume
    \/ \E id \in Ids : WorkerCrash(id)

SpecPool == InitPool /\ [][NextPool]_vars

\* SpecLog: the log manager with a logLocation, called by the main thread as
\* outcome messages arrive, and the file system finishing the operations it was
\* handed.  The operations run on the thread pool, which finishes them in any order.
mainVars == <<iterable, workers, processing, retryStarted, failedTasks, recentErrors,
              stats, threads, parallelProcesses, retryFailed, wk, timers, fatal, hist, env,
              late>>

LogItems == 1..MaxLogItems

Called(call, x) ==
    \E i \in 1..Len(logCalls) : logCalls[i].call = call /\ logCalls[i].iterated = x

LogCall(call, x, L) ==
    /\ Len(logCalls) < MaxLogCalls
    /\ logCalls' = Append(logCalls, [call |-> call, iterated |-> x,
                                      onDisk |-> \E i \in 1..Len(failureFile) :
                                                    failureFile[i] = x])
    /\ logQueue' = L.logQueue
    /\ logProcessing' = L.logProcessing
    /\ fsOps' = L.fsOps
    /\ UNCHANGED <<successFile, failureFile, errorsFile, mainVars>>

LogSuccess(x) == LogCall("logSuccess", x, logSuccess(LogState, x))
LogFailure(x) == LogCall("logFailure", x, logFailure(LogState, x))
LogError(x) == LogCall("logError", x, logError(LogState, x))
\* onSuccessMessage calls logRetrySuccess for a task of failedTasks only
LogRetrySuccess(x) ==
    /\ Called("logFailure", x)
    /\ LogCall("logRetrySuccess", x, logRetrySuccess(LogState, x))

FileText(file) ==
    CASE file = "success" -> successFile
      [] file = "failure" -> failureFile
      [] OTHER -> errorsFile

\* the file system finishes operation k: an append, the read of processRmFailure
\* (which then splices the lines and starts the write, or returns when nothing
\* matched), or that write
FsComplete(k) ==
    /\ k \in 1..Len(fsOps)
    /\ LET o == fsOps[k]
           rest == RemoveAt(fsOps, k)
           lines == Split(failureFile)
           index == rmFailureIndex(lines, o.text[1])
           writes(file) == o.op # "read" /\ o.file = file
           after(file) == IF o.op = "append" THEN FileText(file) \o o.text ELSE o.text
       IN /\ successFile' = IF writes("success") THEN after("success") ELSE successFile
          /\ failureFile' = IF writes("failure") THEN after("failure") ELSE failureFile
          /\ errorsFile' = IF writes("errors") THEN after("errors") ELSE errorsFile
          /\ fsOps' = IF o.op = "read" /\ index # 0
                       THEN Append(rest, [op |-> "write", file |-> "failure",
                                          text |-> Join(RemoveAt(lines, index))])
                       ELSE rest
    /\ UNCHANGED <<logQueue, logProcessing, logCalls, mainVars>>

InitLog == InitWith(<<>>, 1, 1, TRUE, [events |-> 0, failItem |-> 0])

NextLog ==
    \/ \E x \in LogItems : LogSuccess(x)
    \/ \E x \in LogItems : LogFailure(x)
    \/ \E x \in LogItems : LogError(x)
    \/ \E x \in LogItems : LogRetrySuccess(x)
    \/ \E k \in 1..Len(fsOps) : FsComplete(k)

SpecLog == InitLog /\ [][NextLog]_vars

\* SpecRmFailure: a failure file of up to MaxEntries entries is written one
\* entry at a time, and processRmFailure is run on it alone.  hist.lastRm notes
\* the item and the text of the file before and after the last run.
MaxEntries == 3

AppendFailure(x) ==
    /\ Len(failureFile) < 2 * MaxEntries
    /\ failureFile' = failureFile \o EntryLine(x)
    /\ UNCHANGED <<logQueue, logProcessing, successFile, errorsFile, fsOps, logCalls,
                   mainVars>>

RmFailure(x) ==
    /\ failureFile' = processRmFailure(failureFile, x)
    /\ hist' = [hist EXCEPT !.lastRm = [called |-> TRUE, iterated |-> x,
                                        before |-> failureFile,
                                        after |-> processRmFailure(failureFile, x)]]
    /\ UNCHANGED <<logQueue, logProcessing, successFile, errorsFile, fsOps, logCalls,
                   iterable, workers, processing, retryStarted, failedTasks, recentErrors,
                   stats, threads, parallelProcesses, retryFailed, wk, timers, fatal, env,
                   late>>

NextRmFailure ==
    \/ \E x \in LogItems : AppendFailure(x)
    \/ \E x \in LogItems : RmFailure(x)

SpecRmFailure == InitLog /\ [][NextRmFailure]_vars

(***************************************************************************)
(* Claims checked under Spec.                                              *)
(***************************************************************************)
InFlight(id) == wk[id].sent - wk[id].received

\* C1: whenever the completion callback is invoked, the pending queue is empty
\* and no live worker still has a dispatched item outstanding.
C1_CompletionDrained ==
    ~hist.pendingAtCompletion /\ ~hist.busyAtCompletion

\* C2: the completion callback is invoked at most once in a run.
C2_CompletionAtMostOnce == hist.completions <= 1

\* C5: for every worker, sent - received equals the number of its in-flight
\* records and never exceeds parallelProcesses.
C5_InFlightBounded ==
    \A id \in DOMAIN wk :
        /\ InFlight(id) = Len(wk[id].currentTasks)
        /\ InFlight(id) <= parallelProcesses

\* C5 witness: a worker is at its limit of two while more work is pending.
C5_Witness ==
    \E id \in DOMAIN wk :
        /\ parallelProcesses = 2
        /\ InFlight(id) = 2
        /\ wk[id].received > 0
        /\ iterable # <<>>

\* C6: dispatch is LIFO.  The items of the work list are dispatched in the reverse
\* of their order in the list; a step that dispatches an item takes the last item
\* of the pending queue (of the failed tasks, when the step began the retry) and
\* leaves the rest; the worker holds no item but the one dispatched last.
Last(seq) == seq[Len(seq)]
Front(seq) == SubSeq(seq, 1, Len(seq) - 1)

C6_ReverseOrder ==
    LET n == Len(hist.workList) IN
    /\ \A i \in 1..Len(hist.dispatchLog) :
           i <= n => hist.dispatchLog[i] = hist.workList[n + 1 - i]
    /\ \A id \in DOMAIN wk :
           /\ \A i \in 1..Len(wk[id].inbox) : wk[id].inbox[i] = Last(hist.dispatchLog)
           /\ \A i \in 1..Len(wk[id].running) :
                  wk[id].running[i].item = Last(hist.dispatchLog)

C6_PopsLast ==
    hist.dispatchLog' # hist.dispatchLog =>
        LET queue == IF retryStarted' /\ ~retryStarted THEN failedTasks ELSE iterable IN
        /\ hist.dispatchLog' = Append(hist.dispatchLog, Last(queue))
        /\ iterable' = Front(queue)

C6_LifoDispatch == []C6_ReverseOrder /\ [][C6_PopsLast]_vars

\* C6 witness: the work list <<1, 2, 3>> has gone to the worker as 3, 2, 1.
C6_Witness ==
    /\ hist.workList = <<1, 2, 3>>
    /\ Len(hist.dispatchLog) >= 3
    /\ SubSeq(hist.dispatchLog, 1, 3) = <<3, 2, 1>>
    /\ \E id \in DOMAIN wk : wk[id].running = <<[item |-> 1, noted |-> FALSE]>>

\* C7: with retryOnFail off, processedTasks equals the number of items
\* dispatched whenever the completion callback is invoked.
C7_ProcessedEqualsDispatched ==
    ~retryFailed => ~hist.miscountAtCompletion

\* C8: with retryOnFail on, no item is put back on the pending queue more
\* than once.
C8_RequeuedAtMostOnce ==
    retryFailed => \A x \in DOMAIN hist.requeued : hist.requeued[x] <= 1

\* C14: startWorking called while the run is dispatching changes nothing: the
\* total-task count and the other counters, the pending queue and the pool stay
\* as they are and no worker is spawned.
C14_StartIdempotent ==
    [][(processing /\ hist.starts' = hist.starts + 1) =>
           /\ stats' = stats
           /\ iterable' = iterable
           /\ workers' = workers
           /\ Len(wk') = Len(wk)
           /\ processing' = processing
           /\ retryStarted' = retryStarted
           /\ failedTasks' = failedTasks]_vars

\* C15: a worker marked stopping is never dispatched another item, also after a
\* later startWorking: while it is stopping its sent count and its in-flight
\* records do not grow and no message is posted to it.
C15_StoppingNotDispatched ==
    [][\A id \in DOMAIN wk :
           (wk[id].stopping /\ wk'[id].stopping) =>
               /\ wk'[id].sent = wk[id].sent
               /\ Len(wk'[id].currentTasks) <= Len(wk[id].currentTasks)
               /\ Len(wk'[id].inbox) <= Len(wk[id].inbox)]_vars

\* C15 witness: the run has been resumed after stopWorking(false); the stopping
\* worker has finished an item and got nothing new, while a worker of the new pool
\* has been dispatched an item.
C15_Witness ==
    \E id \in DOMAIN wk, other \in DOMAIN wk :
        /\ wk[id].stopping /\ wk[id].alive
        /\ wk[id].received >= 1 /\ wk[id].sent = wk[id].received
        /\ hist.starts >= 2 /\ processing
        /\ Includes(workers, other) /\ wk[other].sent >= 1

\* C16: a worker marked stopping stays in the pool while it has items in flight,
\* and is terminated once its received count has reached its sent count.
C16_StoppingTracked ==
    \A id \in DOMAIN wk :
        (wk[id].stopping /\ wk[id].alive /\ wk[id].received < wk[id].sent) =>
            Includes(workers, id)

C16_DrainedTerminated ==
    \A id \in DOMAIN wk :
        (wk[id].stopping /\ wk[id].received >= wk[id].sent) => ~wk[id].alive

C16_StopGraceful == C16_StoppingTracked /\ C16_DrainedTerminated

(***************************************************************************)
(* Claims checked under SpecScenario, SpecLive and SpecCrash.              *)
(***************************************************************************)
\* C3: in the scenario (n items, one worker, one at a time, retry on, one item
\* failing once and succeeding on its retry; the claim's case is n = 5 with item 2
\* failing) the run ends with successful = n, failed = 0, processed = n + 1,
\* total tasks = n + 1 and the completion callback invoked once.
C3_ScenarioStats ==
    LET n == Len(hist.workList) IN
    hist.completions > 0 =>
        /\ stats.successful = n
        /\ stats.failed = 0
        /\ stats.processedTasks = n + 1
        /\ stats.totalTasks = n + 1
        /\ hist.completions = 1

\* C3 witness: the claim's own case has run to its end.
C3_Witness ==
    /\ hist.workList = <<1, 2, 3, 4, 5>>
    /\ env.failItem = 2
    /\ hist.completions = 1
    /\ stats.processedTasks = 6
    /\ hist.requeued[2] = 1

\* C4: a started run without crashes or stops passes every item of the work list
\* to the handler and emits the completion event with the pool empty.
RunComplete ==
    /\ hist.completions > 0
    /\ workers = <<>>
    /\ hist.handled = {hist.workList[i] : i \in 1..Len(hist.workList)}

C4_RunCompletes == <>[]RunComplete

\* C4 witness: a run of two items on two workers, one of which failed, is complete.
C4_Witness ==
    /\ RunComplete
    /\ Len(hist.workList) = 2
    /\ threads = 2
    /\ stats.failed > 0

\* C10: every crash adds one to recentErrors and one timer that takes it back after
\* the window; the handler throws exactly when the count has passed 5; otherwise
\* the crashed worker is replaced by one new worker; after the throw nothing is
\* dispatched.
C10_Counted ==
    /\ recentErrors = Len(timers)
    /\ \A i \in 1..Len(timers) : timers[i] \in 0..CrashWindow
    /\ hist.crashes = hist.expired + recentErrors
    /\ fatal <=> recentErrors > CrashThreshold
    /\ Len(wk) = hist.starts * threads + hist.crashes - (IF fatal THEN 1 ELSE 0)

C10_SpacedCrashes ==
    /\ hist.crashes = 4
    /\ timers = <<1, 3, 5>>
    /\ ~fatal
    /\ Len(wk) = 5
(***************************************************************************)
(* Claims checked under SpecLog.                                           *)
(***************************************************************************)
Entries(text, x) == Cardinality({i \in 1..Len(text) : text[i] = x})

CallsAbout(x) ==
    LET about == {i \in 1..Len(logCalls) : logCalls[i].iterated = x}
        RECURSIVE Pick(_)
        Pick(i) == IF i > Len(logCalls) THEN <<>>
                   ELSE IF i \in about THEN <<logCalls[i].call>> \o Pick(i + 1)
                   ELSE Pick(i + 1)
    IN Pick(1)

LogQuiet == logQueue = <<>> /\ fsOps = <<>>

\* C9: when item x was logged as failed and later as a retry success, then once
\* every log operation has been applied the failure log has no entry for x and
\* the success log has exactly one.
C9_RetryReconciled ==
    \A x \in LogItems :
        (LogQuiet /\ CallsAbout(x) = <<"logFailure", "logRetrySuccess">>) =>
            /\ Entries(failureFile, x) = 0
            /\ Entries(successFile, x) = 1

\* the same with the failure entry of x already in the file when logRetrySuccess(x)
\* is called
C9_ReconciledOnceWritten ==
    \A x \in LogItems :
        (/\ LogQuiet
         /\ CallsAbout(x) = <<"logFailure", "logRetrySuccess">>
         /\ \A i \in 1..Len(logCalls) :
                (logCalls[i].call = "logRetrySuccess" /\ logCalls[i].iterated = x)
                    => logCalls[i].onDisk)
        => Entries(failureFile, x) = 0

(***************************************************************************)
(* Claims checked under SpecHung.                                          *)
(***************************************************************************)
\* C11: a scan recycles a worker of the pool if and only if at least half of its
\* in-flight items are older than the timeout: no scan leaves in place a worker
\* that met the test when the scan began, and no scan recycles one that did not.
C11_HungCriterion == ~hist.scanMissed /\ ~hist.scanWrong

\* a worker with 4 items in flight, 3 of them older than the timeout, is in the pool
\* (the next scan recycles it)
C11_ThreeOfFour ==
    \E id \in DOMAIN wk :
        /\ Includes(workers, id)
        /\ Len(wk[id].currentTasks) = 4
        /\ hungTasks(wk[id], late) = 3

\* a worker with 4 items in flight, 1 of them older than the timeout, is still in
\* the pool and alive after a scan has run
C11_OneOfFour ==
    \E id \in DOMAIN wk :
        /\ Includes(workers, id)
        /\ Len(wk[id].currentTasks) = 4
        /\ hungTasks(wk[id], late) = 1

(***************************************************************************)
(* Claims checked under SpecRemove.                                        *)
(***************************************************************************)
\* C12: removeWorker(id) returns true for a worker of the pool, with either value
\* of immediate, and takes it out of the pool; a second call for the same id, and
\* a call for an id that is not in the pool, return false and leave the pool as
\* it is.
C12_RemoveIdempotent ==
    LET c == hist.lastRemove IN
    c.id # 0 =>
        /\ c.inPool => (c.result = "true" /\ ~Includes(workers, c.id))
        /\ c.again => c.result = "false"
        /\ ~c.inPool => (c.result = "false" /\ c.poolKept)

\* the same, reading "returns true" as "returns a value that is not false"
C12_RemoveIdempotentTruthy ==
    LET c == hist.lastRemove IN
    c.id # 0 =>
        /\ c.inPool => (c.result # "false" /\ ~Includes(workers, c.id))
        /\ c.again => c.result = "false"
        /\ ~c.inPool => (c.result = "false" /\ c.poolKept)

\* a second removeWorker call for a worker that the first call took out of the pool
C12_SecondCall ==
    /\ hist.lastRemove.again
    /\ hist.lastRemove.id \in DOMAIN wk
    /\ hist.lastRemove.result = "false"

C13_AbsentRefused ==
    LET c == hist.lastSet IN
    (c.called /\ c.given.kind \in {"undefined", "null"}) =>
        c.threw /\ iterable = c.before

(***************************************************************************)
(* Claims checked under SpecResume.                                        *)
(***************************************************************************)
Count(seq, x) == Cardinality({i \in 1..Len(seq) : seq[i] = x})

DispatchedSince(n) == SubSeq(hist.dispatchLog, n + 1, Len(hist.dispatchLog))

\* no item is dispatched more often than once plus the times it was put back on
\* the queue, and only a failed item is put back
OnceUnlessFailed ==
    \A x \in DOMAIN hist.requeued :
        /\ Count(hist.dispatchLog, x) <= 1 + hist.requeued[x]
        /\ hist.requeued[x] > 0 => Includes(failedTasks, x)

\* the resumed run is over: every item that was pending at the stop has been
\* dispatched after it, the completion event has been emitted since the resuming
\* call, and the pool is empty
ResumeDone ==
    /\ \A i \in 1..Len(hist.stopMark.pending) :
           Count(DispatchedSince(hist.stopMark.dispatched), hist.stopMark.pending[i]) >= 1
    /\ hist.completions > hist.stopMark.completions
    /\ workers = <<>>

C17_QueueDrained ==
    [](hist.stopMark.resumed => <>[](ResumeDone /\ iterable = <<>>))

\* C18: a message without a type or with an unknown type leaves the orchestrator's
\* queue, failed set, pool, in-flight records and statistics as they were, and a
\* worker that receives a message of an unknown type goes on running.
C18_MainDiscards == hist.lastMsg.side = "main" => hist.lastMsg.kept /\ ~hist.lastMsg.crashed

C18_WorkerDiscards == hist.lastMsg.side = "worker" => ~hist.lastMsg.crashed

C18_ForeignDiscarded == C18_MainDiscards /\ C18_WorkerDiscards

\* the orchestrator has handled a message of an unknown type while items were
\* in flight
C18_MainCase ==
    /\ hist.lastMsg.side = "main"
    /\ hist.lastMsg.type = "bogus"
    /\ \E id \in DOMAIN wk : wk[id].currentTasks # <<>>


\* C19: after every 'complete' message the orchestrator handles, the sending
\* worker has been given a new item, has been removed from the pool, or has items
\* in flight and nothing it may take, whether the per-item callback returns or
\* throws.
C19_ReentryAlways == hist.lastComplete.id # 0 => hist.lastComplete.reentered

\* the same for the 'complete' messages whose callback returns
C19_ReentryWhenReturning ==
    hist.lastComplete.outcome = "returns" => hist.lastComplete.reentered

\* a 'complete' message has been handled with the callback throwing while the
\* queue still holds an item
C19_ThrowCase == hist.lastComplete.outcome = "throws" /\ iterable # <<>>


(***************************************************************************)
(* Claims checked under SpecLog.                                           *)
(***************************************************************************)
\* the items of the lines of a log file, in file order
Items(text) == LET IsItem(token) == token # NL IN SelectSeq(text, IsItem)

\* the items of the calls that append to the success log, in call order
SuccessCalls ==
    LET Appends(c) == c.call \in {"logSuccess", "logRetrySuccess"}
        calls == SelectSeq(logCalls, Appends)
    IN [i \in 1..Len(calls) |-> calls[i].iterated]

\* at most one file operation of the LogWriter is in flight
C20_OneInFlight == Len(fsOps) <= 1

\* once every operation has been applied, the success log holds the entries in
\* the order of the calls
C20_InOrder == LogQuiet => Items(successFile) = SuccessCalls

\* once every operation has been applied, the failure log holds an entry for
\* every item logged as failed and never logged as a retry success
C20_NoLostAppend ==
    \A x \in LogItems :
        (LogQuiet /\ Called("logFailure", x) /\ ~Called("logRetrySuccess", x))
            => Entries(failureFile, x) >= 1

\* C20: the LogWriter applies the log operations one at a time in the order they
\* were enqueued: no two file operations are in flight together, the entries
\* reach the file in call order, and no appended entry is lost to the rewrite of
\* a failure removal.
C20_Serialized == C20_OneInFlight /\ C20_InOrder /\ C20_NoLostAppend


(***************************************************************************)
(* Claims about the counters of the workers and of the statistics.         *)
(***************************************************************************)
\* C21: for every worker, the number of 'complete' messages accepted from it is
\* at most the number of items dispatched to it.
C21_ReceivedAtMostSent == \A id \in DOMAIN wk : wk[id].received <= wk[id].sent

\* C21 witness: a worker of the pool has had every item it was sent accepted as
\* complete and still holds the counts
C21_Witness ==
    \E id \in DOMAIN wk : wk[id].sent >= 2 /\ wk[id].received = wk[id].sent


(***************************************************************************)
(* Claims about the handling of a crash.                                   *)
(***************************************************************************)
\* a step that handles the 'error' event of worker id without the throw of the
\* crash threshold
CrashHandled(id) ==
    /\ hist.crashes' = hist.crashes + 1
    /\ ~fatal'
    /\ wk[id].alive /\ ~wk'[id].alive

\* every item in flight on the crashed worker gets one error outcome and one
\* failure outcome
C22_Outcomes ==
    [][\A id \in DOMAIN wk : CrashHandled(id) =>
           LET tasks == wk[id].currentTasks IN
           /\ stats'.errors = stats.errors + Len(tasks)
           /\ stats'.failed = stats.failed + Len(tasks)
           /\ \A i \in 1..Len(tasks) : Includes(failedTasks', tasks[i].task)]_vars

\* the crashed worker is out of the pool and one worker has been spawned
C22_Replaced ==
    [][\A id \in DOMAIN wk : CrashHandled(id) =>
           /\ ~Includes(workers', id)
           /\ Len(wk') = Len(wk) + 1]_vars

\* the pool has the size it had before the crash
C22_PoolSize ==
    [][\A id \in DOMAIN wk : CrashHandled(id) => Len(workers') = Len(workers)]_vars

\* the pool has the size it had when the crashed worker was in the pool and the
\* queue still holds an item for the replacement
C22_PoolSizeWhileBusy ==
    [][\A id \in DOMAIN wk :
           (CrashHandled(id) /\ Includes(workers, id) /\ processing' /\ iterable' # <<>>)
               => Len(workers') = Len(workers)]_vars

\* C22: when the 'error' event of a worker is handled without the threshold
\* throw, every item in flight on the worker gets one error and one failure
\* outcome, the worker is out of the pool and terminated, one replacement is
\* spawned, and the pool has the size it had before.
C22_CrashReplaces ==
    [][\A id \in DOMAIN wk : CrashHandled(id) =>
           LET tasks == wk[id].currentTasks IN
           /\ stats'.errors = stats.errors + Len(tasks)
           /\ stats'.failed = stats.failed + Len(tasks)
           /\ \A i \in 1..Len(tasks) : Includes(failedTasks', tasks[i].task)
           /\ ~Includes(workers', id)
           /\ Len(wk') = Len(wk) + 1
           /\ Len(workers') = Len(workers)]_vars


\* C23: whenever stats.errors is incremented for an item, a failure is recorded
\* for the item in the same handling: stats.failed is incremented and the item
\* is added to failedTasks.
C23_ErrorPairedWithFailure ==
    [][stats'.errors > stats.errors =>
           /\ stats'.failed - stats.failed = stats'.errors - stats.errors
           /\ Len(failedTasks') - Len(failedTasks) = stats'.errors - stats.errors]_vars

\* the same for the errors derived from a crash before the retry pass has started
C23_CrashPairedBeforeRetry ==
    [][(stats'.errors > stats.errors /\ hist.crashes' > hist.crashes /\ ~retryStarted) =>
           /\ stats'.failed - stats.failed = stats'.errors - stats.errors
           /\ Len(failedTasks') - Len(failedTasks) = stats'.errors - stats.errors]_vars


(***************************************************************************)
(* Claims about the retry pass.                                            *)
(***************************************************************************)
\* C24: beginRetry runs at most once, only with the queue empty, the run active,
\* retry enabled and no retry started, and it makes the failed tasks the queue and
\* adds their number to totalTasks.
C24_RetryOnce == hist.retry.begins <= 1 /\ hist.retry.guarded /\ hist.retry.moved

\* C24 witness: the retry pass has begun with a failed item, which went back on
\* the queue
C24_Witness ==
    /\ hist.retry.begins = 1
    /\ \E x \in DOMAIN hist.requeued : hist.requeued[x] >= 1 /\ Includes(failedTasks, x)


\* the step in which beginRetry runs takes every item it puts back on the queue
\* out of failedTasks
C25_RequeuedLeaves ==
    [][hist.retry.begins' > hist.retry.begins =>
           \A x \in DOMAIN hist.requeued :
               hist.requeued'[x] > hist.requeued[x] => ~Includes(failedTasks', x)]_vars

\* the step that handles the 'successful' message of an item of failedTasks takes
\* the item out of failedTasks
C25_RetrySuccessLeaves ==
    [][\A id \in DOMAIN wk :
           (/\ wk[id].outbox # <<>>
            /\ wk'[id].outbox = Tail(wk[id].outbox)
            /\ Head(wk[id].outbox).type = "successful"
            /\ Includes(failedTasks, Head(wk[id].outbox).iterated))
               => ~Includes(failedTasks', Head(wk[id].outbox).iterated)]_vars

\* C25: an item leaves failedTasks when the retry pass puts it back on the queue
\* and when its retry succeeds.
C25_FailedSetShrinks ==
    [][/\ hist.retry.begins' > hist.retry.begins =>
              \A x \in DOMAIN hist.requeued :
                  hist.requeued'[x] > hist.requeued[x] => ~Includes(failedTasks', x)
       /\ \A id \in DOMAIN wk :
              (/\ wk[id].outbox # <<>>
               /\ wk'[id].outbox = Tail(wk[id].outbox)
               /\ Head(wk[id].outbox).type = "successful"
               /\ Includes(failedTasks, Head(wk[id].outbox).iterated))
                  => ~Includes(failedTasks', Head(wk[id].outbox).iterated)]_vars

\* failedTasks only grows: every step leaves it as it was or appends to it
C25_FailedSetGrowsOnly ==
    [][/\ Len(failedTasks') >= Len(failedTasks)
       /\ SubSeq(failedTasks', 1, Len(failedTasks)) = failedTasks]_vars


\* the step handles the 'successful' message of an item that is in failedTasks
\* and has been dispatched more than once
RetrySuccessStep ==
    \E id \in DOMAIN wk :
        /\ wk[id].outbox # <<>>
        /\ wk'[id].outbox = Tail(wk[id].outbox)
        /\ Head(wk[id].outbox).type = "successful"
        /\ Includes(failedTasks, Head(wk[id].outbox).iterated)
        /\ Count(hist.dispatchLog, Head(wk[id].outbox).iterated) >= 2

\* processedTasks, successful and errors never decrease
C26_Monotone ==
    [][/\ stats'.processedTasks >= stats.processedTasks
       /\ stats'.successful >= stats.successful
       /\ stats'.errors >= stats.errors]_vars

\* failed decreases by one only, and only when a retry succeeds
C26_DecrementOnRetrySuccess ==
    [][stats'.failed < stats.failed =>
           stats'.failed = stats.failed - 1 /\ RetrySuccessStep]_vars

\* failed is decremented at most once per item
C26_DecrementOncePerItem == \A x \in DOMAIN hist.reconciled : hist.reconciled[x] <= 1

C26_FailedNonNegative == stats.failed >= 0

\* C26: processedTasks, successful and errors never decrease; failed decreases
\* only by one, at most once per item, and only when a retry of an item that
\* failed before succeeds; failed is never negative.
C26_Counters ==
    /\ [](C26_DecrementOncePerItem /\ C26_FailedNonNegative)
    /\ [][/\ stats'.processedTasks >= stats.processedTasks
          /\ stats'.successful >= stats.successful
          /\ stats'.errors >= stats.errors
          /\ stats'.failed < stats.failed =>
                 stats'.failed = stats.failed - 1 /\ RetrySuccessStep]_vars


(***************************************************************************)
(* Claims checked under SpecRmFailure.                                     *)
(***************************************************************************)
\* the sequence without its last, or its first, occurrence of x
RemoveLast(seq, x) ==
    IF ~Includes(seq, x) THEN seq
    ELSE RemoveAt(seq, CHOOSE i \in 1..Len(seq) :
                           seq[i] = x /\ \A j \in (i + 1)..Len(seq) : seq[j] # x)

RemoveFirst(seq, x) ==
    IF ~Includes(seq, x) THEN seq
    ELSE RemoveAt(seq, CHOOSE i \in 1..Len(seq) :
                           seq[i] = x /\ \A j \in 1..(i - 1) : seq[j] # x)

\* C27: the failure removal takes out of the failure file exactly one entry, the
\* last one of the item, and leaves the other entries in place and in order;
\* with no entry of the item it leaves the file as it was.
C27_RemovesLastMatch ==
    hist.lastRm.called =>
        /\ Items(hist.lastRm.after) = RemoveLast(Items(hist.lastRm.before), hist.lastRm.iterated)
        /\ ~Includes(hist.lastRm.before, hist.lastRm.iterated)
               => hist.lastRm.after = hist.lastRm.before

\* the same with the first entry of the item for the last
C27_RemovesFirstMatch ==
    hist.lastRm.called =>
        /\ Items(hist.lastRm.after) = RemoveFirst(Items(hist.lastRm.before), hist.lastRm.iterated)
        /\ ~Includes(hist.lastRm.before, hist.lastRm.iterated)
               => hist.lastRm.after = hist.lastRm.before


(***************************************************************************)
(* Claims about the worker thread.                                         *)
(***************************************************************************)
\* the items worker id holds: received and not yet looked at, queued before it
\* was ready, passed to execute, or reported complete and not yet accepted
StageItems(id) ==
    LET w == wk[id]
        IsComplete(m) == m.type = "complete"
        complete == SelectSeq(w.outbox, IsComplete)
    IN w.inbox \o (IF w.ready THEN <<>> ELSE w.queue)
               \o [i \in 1..Len(w.running) |-> w.running[i].item]
               \o [i \in 1..Len(complete) |-> complete[i].iterated]

\* every item dispatched to a live worker and not yet complete is at exactly one
\* of these stages, once per dispatch
C28_Conserved ==
    \A id \in DOMAIN wk : wk[id].alive =>
        \A x \in 0..MaxItems :
            Count(StageItems(id), x) =
                Count([i \in 1..Len(wk[id].currentTasks) |-> wk[id].currentTasks[i].task], x)

\* C28: every item a worker receives, before or after it is ready, is passed to
\* execute exactly once and yields exactly one 'complete' message.
C28_ExactlyOnce == C28_Conserved /\ ~hist.dropped

\* an item that arrived before the worker was ready has been passed to execute
\* and completed
C28_QueuedCase ==
    \E id \in DOMAIN wk :
        /\ wk[id].alive /\ wk[id].ready /\ wk[id].queue # <<>>
        /\ wk[id].received >= 1


(***************************************************************************)
(* Claims about one scan of recycleHungThreads, checked under SpecHung.    *)
(***************************************************************************)
\* no scan recycles a worker that was spawned during the scan
C29_NoFreshRecycled == ~hist.scanFresh

\* C29: a scan that starts with two or more hung workers in the pool recycles
\* all of them, and recycles no replacement spawned during the scan.
C29_ScanRecyclesAll == ~hist.scanMissedOfMany /\ ~hist.scanFresh

\* two workers of the pool are hung at the same time
C29_TwoHung ==
    \E a, b \in DOMAIN wk :
        /\ a # b
        /\ Includes(workers, a) /\ Includes(workers, b)
        /\ wk[a].currentTasks # <<>> /\ hungCondition(wk[a], late)
        /\ wk[b].currentTasks # <<>> /\ hungCondition(wk[b], late)


(***************************************************************************)
(* Claims about items in flight on several workers.                        *)
(***************************************************************************)
\* main's record says item x is in flight on the live worker id
InFlightOn(id, x) ==
    /\ wk[id].alive
    /\ \E i \in 1..Len(wk[id].currentTasks) : wk[id].currentTasks[i].task = x

\* C30: with a work list of distinct items, no item is in flight on two workers
\* at the same time.
C30_NoDoubleFlight ==
    \A a, b \in DOMAIN wk : \A x \in DOMAIN hist.requeued :
        (a # b /\ InFlightOn(a, x)) => ~InFlightOn(b, x)

\* no item is being executed by two worker threads at the same time
C30_NoDoubleExecution ==
    \A a, b \in DOMAIN wk : \A i \in 1..Len(wk[a].running) : \A j \in 1..Len(wk[b].running) :
        (a # b /\ wk[a].alive /\ wk[b].alive) => wk[a].running[i].item # wk[b].running[j].item

\* before the retry pass has begun, no item is in flight on two workers
C30_NoDoubleFlightBeforeRetry == ~retryStarted => C30_NoDoubleFlight


(***************************************************************************)
(* Claims about the size of the pool and the remaining-task figure.        *)
(***************************************************************************)
\* the worker threads that were spawned and have not ended
LiveWorkers == {id \in DOMAIN wk : wk[id].alive}

\* main.workers never holds more workers than config.threads
C31_PoolWithinThreads == Len(workers) <= threads

\* never more live worker threads than config.threads
C31_LiveWithinThreads == Cardinality(LiveWorkers) <= threads

\* C31: the number of live workers and the number of workers in the pool never
\* exceed the configured number of threads, over start, stop, resume and crashes.
C31_WorkersWithinThreads ==
    Len(workers) <= threads /\ Cardinality(LiveWorkers) <= threads

\* the same before the application has called stopWorking
C31_WithinThreadsBeforeStop ==
    ~hist.stopped => Len(workers) <= threads /\ Cardinality(LiveWorkers) <= threads


\* C32: processedTasks is at most totalTasks, so the remaining-task figure of the
\* statistics is never negative.
C32_RemainingNonNegative ==
    /\ stats.processedTasks <= stats.totalTasks
    /\ stats.totalTasks # 0 => remainingTasks(stats) >= 0

\* the figure alone, in the states in which updateCalculatedFields assigns it
C32_FigureNonNegative == stats.totalTasks # 0 => remainingTasks(stats) >= 0

\* the same in runs without a crash, before the application has called
\* stopWorking or startWorking a second time
C32_NonNegativeInPlainRun ==
    (hist.crashes = 0 /\ ~hist.stopped /\ hist.starts <= 1) => remainingTasks(stats) >= 0

\* the same in runs without a crash
C32_NonNegativeWithoutCrash == hist.crashes = 0 => remainingTasks(stats) >= 0

\* the same before the application has called stopWorking or startWorking a
\* second time
C32_NonNegativeWithoutRestart ==
    (~hist.stopped /\ hist.starts <= 1) => remainingTasks(stats) >= 0

=============================================================================
